---- MODULE Spec2Model ----
(***************************************************************************)
(* A model of jira_report_email.py: one run of the command-line program,   *)
(* from argument parsing to process exit.                                  *)
(*                                                                         *)
(* Python strings are modelled as sequences of one-character strings, so   *)
(* that the regular-expression search, strptime, split, strip, lower and   *)
(* join are computed character by character, as the library computes them. *)
(* An optional value (None or a str) is a sequence of length 0 or 1.       *)
(***************************************************************************)
EXTENDS Integers, Sequences, FiniteSets, TLC

\* ------------------------------------------------------------------------
\* Optional values
\* ------------------------------------------------------------------------
None == << >>
Some(s) == << s >>

\* Python truthiness of an Optional[str]: None and "" are falsy.
Truthy(o) == o # None /\ o[1] # << >>

\* ------------------------------------------------------------------------
\* Characters
\* ------------------------------------------------------------------------
DigitChars == << "0", "1", "2", "3", "4", "5", "6", "7", "8", "9" >>

IsDigit(c) == \E i \in 1..10 : DigitChars[i] = c

DigitVal(c) == (CHOOSE i \in 1..10 : DigitChars[i] = c) - 1

UpperChars == << "A", "B", "C", "D", "E", "F", "G", "H", "I", "J", "K", "L", "M",
                 "N", "O", "P", "Q", "R", "S", "T", "U", "V", "W", "X", "Y", "Z" >>

LowerChars == << "a", "b", "c", "d", "e", "f", "g", "h", "i", "j", "k", "l", "m",
                 "n", "o", "p", "q", "r", "s", "t", "u", "v", "w", "x", "y", "z" >>

IsSpace(c) == c \in { " ", "\t", "\n" }

\* str.lower(), character by character.
LowerChar(c) ==
    IF \E i \in 1..26 : UpperChars[i] = c
    THEN LowerChars[CHOOSE i \in 1..26 : UpperChars[i] = c]
    ELSE c

lower(s) == [ i \in 1..Len(s) |-> LowerChar(s[i]) ]

\* ------------------------------------------------------------------------
\* str.strip(), str.split(','), ', '.join(...)
\* ------------------------------------------------------------------------
RECURSIVE lstrip(_)
lstrip(s) == IF s # << >> /\ IsSpace(Head(s)) THEN lstrip(Tail(s)) ELSE s

RECURSIVE rstrip(_)
rstrip(s) ==
    IF s # << >> /\ IsSpace(s[Len(s)]) THEN rstrip(SubSeq(s, 1, Len(s) - 1)) ELSE s

strip(s) == rstrip(lstrip(s))

\* s.split(','): the pieces between commas, in order; always at least one piece.
RECURSIVE splitFrom(_, _)
splitFrom(s, cur) ==
    IF s = << >> THEN << cur >>
    ELSE IF Head(s) = "," THEN << cur >> \o splitFrom(Tail(s), << >>)
    ELSE splitFrom(Tail(s), Append(cur, Head(s)))

split(s) == splitFrom(s, << >>)

RECURSIVE join(_)
join(l) ==
    IF l = << >> THEN << >>
    ELSE IF Len(l) = 1 THEN l[1]
    ELSE l[1] \o << ",", " " >> \o join(Tail(l))

\* The same with the empty entries filtered out.
SplitAndStripDropEmpty(value) == SelectSeq([ i \in 1..Len(split(value)) |-> strip(split(value)[i]) ],
                                        LAMBDA e : e # << >>)

\* [email.strip() for email in value.split(',')]
SplitAndStrip(value) == [ i \in 1..Len(split(value)) |-> strip(split(value)[i]) ]

\* ------------------------------------------------------------------------
\* re.search(r'(\d{4}-\d{2}-\d{2})', filename)
\* ------------------------------------------------------------------------
\* The pattern matches s at position i (ten characters).
DatePatternAt(s, i) ==
    /\ i + 9 <= Len(s)
    /\ \A k \in { 0, 1, 2, 3, 5, 6, 8, 9 } : IsDigit(s[i + k])
    /\ s[i + 4] = "-"
    /\ s[i + 7] = "-"

HasDatePattern(s) == \E i \in 1..Len(s) : DatePatternAt(s, i)

\* The leftmost match (re.search scans from the left).
FirstDateMatch(s) ==
    LET i == CHOOSE j \in 1..Len(s) :
                 /\ DatePatternAt(s, j)
                 /\ \A k \in 1..(j - 1) : ~DatePatternAt(s, k)
    IN  SubSeq(s, i, i + 9)

\* ------------------------------------------------------------------------
\* datetime.strptime(s, '%Y-%m-%d') and strftime('%b %d, %Y')
\* ------------------------------------------------------------------------
IsLeap(y) == (y % 4 = 0 /\ y % 100 # 0) \/ y % 400 = 0

DaysInMonth(y, m) ==
    IF m = 2 THEN (IF IsLeap(y) THEN 29 ELSE 28)
    ELSE IF m \in { 4, 6, 9, 11 } THEN 30
    ELSE 31

\* %m: 1[0-2]|0[1-9]|[1-9]
MonthField(t) ==
    /\ Len(t) \in { 1, 2 }
    /\ \A i \in 1..Len(t) : IsDigit(t[i])
    /\ IF Len(t) = 1 THEN DigitVal(t[1]) >= 1
       ELSE 10 * DigitVal(t[1]) + DigitVal(t[2]) \in 1..12

\* %d: 3[0-1]|[1-2]\d|0[1-9]|[1-9]| [1-9]
DayField(t) ==
    \/ Len(t) = 1 /\ IsDigit(t[1]) /\ DigitVal(t[1]) >= 1
    \/ Len(t) = 2 /\ t[1] = " " /\ IsDigit(t[2]) /\ DigitVal(t[2]) >= 1
    \/ Len(t) = 2 /\ IsDigit(t[1]) /\ IsDigit(t[2])
                  /\ 10 * DigitVal(t[1]) + DigitVal(t[2]) \in 1..31

FieldVal(t) ==
    IF Len(t) = 1 THEN DigitVal(t[1])
    ELSE IF t[1] = " " THEN DigitVal(t[2])
    ELSE 10 * DigitVal(t[1]) + DigitVal(t[2])

YearVal(s) ==
    1000 * DigitVal(s[1]) + 100 * DigitVal(s[2]) + 10 * DigitVal(s[3]) + DigitVal(s[4])

\* The ways to cut s into year "-" month "-" day that the format's regular
\* expression accepts with nothing left over (at most one exists).
StrptimeSplits(s) ==
    { ml \in { 1, 2 } :
        /\ Len(s) >= 6 + ml + 1
        /\ Len(s) <= 6 + ml + 2
        /\ \A i \in 1..4 : IsDigit(s[i])
        /\ s[5] = "-"
        /\ s[6 + ml] = "-"
        /\ MonthField(SubSeq(s, 6, 5 + ml))
        /\ DayField(SubSeq(s, 7 + ml, Len(s))) }

\* [ok |-> FALSE] models ValueError.
strptime(s) ==
    IF StrptimeSplits(s) = { } THEN [ ok |-> FALSE, y |-> 0, m |-> 0, d |-> 0 ]
    ELSE LET ml == CHOOSE x \in StrptimeSplits(s) : TRUE
             y  == YearVal(s)
             m  == FieldVal(SubSeq(s, 6, 5 + ml))
             d  == FieldVal(SubSeq(s, 7 + ml, Len(s)))
         IN  IF y >= 1 /\ d <= DaysInMonth(y, m)
             THEN [ ok |-> TRUE, y |-> y, m |-> m, d |-> d ]
             ELSE [ ok |-> FALSE, y |-> 0, m |-> 0, d |-> 0 ]

MonthAbbr == << << "J", "a", "n" >>, << "F", "e", "b" >>, << "M", "a", "r" >>,
                << "A", "p", "r" >>, << "M", "a", "y" >>, << "J", "u", "n" >>,
                << "J", "u", "l" >>, << "A", "u", "g" >>, << "S", "e", "p" >>,
                << "O", "c", "t" >>, << "N", "o", "v" >>, << "D", "e", "c" >> >>

TwoDigits(n) == << DigitChars[(n \div 10) + 1], DigitChars[(n % 10) + 1] >>

\* %Y for the years 1000..9999 the inputs of this model use.
FourDigits(n) == TwoDigits(n \div 100) \o TwoDigits(n % 100)

\* strftime('%b %d %Y')
strftimeNoComma(t) == MonthAbbr[t.m] \o << " " >> \o TwoDigits(t.d) \o << " " >> \o FourDigits(t.y)

\* strftime('%b %d, %Y')
strftime(t) == MonthAbbr[t.m] \o << " " >> \o TwoDigits(t.d) \o << ",", " " >> \o FourDigits(t.y)

format_date_for_subject(date_str) ==
    IF strptime(date_str).ok THEN strftime(strptime(date_str)) ELSE date_str

\* ------------------------------------------------------------------------
\* Inputs of a run: the environment, the command line, the clock, the file
\* ------------------------------------------------------------------------
\* The most required variables missing at once in the environments explored.
MaxMissing == 2

\* required_vars, in the order validate_environment lists them.
required_vars == << "SMTP_PASSWORD", "SMTP_PORT", "SMTP_REQUIRE_TLS",
                    "SMTP_SERVER", "SMTP_USERNAME", "SMTP_FROM" >>

RequiredSet == { required_vars[i] : i \in 1..Len(required_vars) }

EnvNames == RequiredSet \cup { "SMTP_RECIPIENTS" }

\* "h"
ServerValue == << "h" >>
\* "u"
UserValue == << "u" >>
\* "pw"
PasswordValue == << "p", "w" >>
\* "me@x"
FromValue == << "m", "e", "@", "x" >>

\* "true", "Yes", "1", "false", "on"
TLSValues == { << "t", "r", "u", "e" >>, << "Y", "e", "s" >>, << "1" >>, << "f", "a", "l", "s", "e" >>, << "o", "n" >> }

\* "587", "5x7"
PortValues == { << "5", "8", "7" >>, << "5", "x", "7" >> }

\* unset, "", "c@z", " c@z ,d@w"
EnvRecipientValues == { None, Some(<< >>), Some(<< "c", "@", "z" >>), Some(<< " ", "c", "@", "z", " ", ",", "d", "@", "w" >>) }

DefaultEnv ==
    [ v \in EnvNames |->
        CASE v = "SMTP_SERVER" -> Some(ServerValue)
          [] v = "SMTP_PORT" -> Some(<< "5", "8", "7" >>)
          [] v = "SMTP_USERNAME" -> Some(UserValue)
          [] v = "SMTP_PASSWORD" -> Some(PasswordValue)
          [] v = "SMTP_FROM" -> Some(FromValue)
          [] v = "SMTP_REQUIRE_TLS" -> Some(<< "t", "r", "u", "e" >>)
          [] OTHER -> Some(<< "c", "@", "z" >>) ]

\* The environments explored: either some required variables are unset or
\* empty, or all are set and the TLS flag, the port and the default
\* recipients vary.
Environments ==
    { [ v \in EnvNames |-> IF v \in S THEN blank ELSE DefaultEnv[v] ] :
        S \in { T \in SUBSET RequiredSet : Cardinality(T) \in 1..MaxMissing },
        blank \in { None, Some(<< >>) } }
    \cup
    { [ DefaultEnv EXCEPT !["SMTP_REQUIRE_TLS"] = Some(t),
                          !["SMTP_PORT"] = Some(p),
                          !["SMTP_RECIPIENTS"] = r ] :
        t \in TLSValues, p \in PortValues, r \in EnvRecipientValues }

\* "r-2026-01-06.h", "r.h", "r-2026-13-45.h", "2025-12-31/r-2026-01-06.h",
\* "12024-02-29-2026-01-06.h"
HtmlFiles == { << "r", "-", "2", "0", "2", "6", "-", "0", "1", "-", "0", "6", ".", "h" >>,
               << "r", ".", "h" >>,
               << "r", "-", "2", "0", "2", "6", "-", "1", "3", "-", "4", "5", ".", "h" >>,
               << "2", "0", "2", "5", "-", "1", "2", "-", "3", "1", "/", "r", "-", "2", "0", "2", "6", "-", "0", "1", "-", "0", "6", ".", "h" >>,
               << "1", "2", "0", "2", "4", "-", "0", "2", "-", "2", "9", "-", "2", "0", "2", "6", "-", "0", "1", "-", "0", "6", ".", "h" >> }

\* no flag, "", "2026-01-10", "2026-1-6", "2026-02-30"
DateFlags == { None, Some(<< >>),
               Some(<< "2", "0", "2", "6", "-", "0", "1", "-", "1", "0" >>),
               Some(<< "2", "0", "2", "6", "-", "1", "-", "6" >>),
               Some(<< "2", "0", "2", "6", "-", "0", "2", "-", "3", "0" >>) }

\* no flag, "", "a@x, b@y", "a@x,,a@x "
RecipientFlags == { None, Some(<< >>),
                    Some(<< "a", "@", "x", ",", " ", "b", "@", "y" >>),
                    Some(<< "a", "@", "x", ",", ",", "a", "@", "x", " " >>) }

\* What parser.parse_args() makes of sys.argv: a namespace, a usage error
\* (argparse exits with status 2) or --help (argparse exits with status 0).
CommandLines ==
    { [ parse |-> "ok", html_file |-> f, date |-> d, recipients |-> r ] :
        f \in HtmlFiles, d \in DateFlags, r \in RecipientFlags }
    \cup
    { [ parse |-> p, html_file |-> << >>, date |-> None, recipients |-> None ] :
        p \in { "error", "help" } }

\* datetime.now().strftime('%Y-%m-%d'): "2026-11-05", "2027-01-01"
Todays == { << "2", "0", "2", "6", "-", "1", "1", "-", "0", "5" >>, << "2", "0", "2", "7", "-", "0", "1", "-", "0", "1" >> }

\* File contents: "<p>hi</p>", ""
Contents == { << "<", "p", ">", "h", "i", "<", "/", "p", ">" >>, << >> }

\* ------------------------------------------------------------------------
\* State
\* ------------------------------------------------------------------------
VARIABLES
    env,                  \* os.environ
    args,                 \* the namespace parse_args returned
    pc,                   \* the statement of main / send_report_email to run next
    now,                  \* what datetime.now() returned, if it was called
    report_date,          \* main's report_date (Optional)
    recipients,           \* main's recipients
    read_env_recipients,  \* os.environ.get('SMTP_RECIPIENTS') was evaluated
    smtp_require_tls,     \* send_report_email's locals
    formatted_date,
    msg,
    html_content,         \* what read_html_file returned (Optional)
    conn,                 \* the smtplib connection: open, encrypted, authenticated
    events,               \* file and network operations attempted, in order
    stdout,               \* kinds of the messages printed to sys.stdout, in order
    stderr,               \* kinds of the messages printed to sys.stderr, in order
    raised,               \* the exception that reached the except clauses, or "none"
    named_missing,        \* the variables validate_environment printed as missing
    success,              \* what send_report_email returned: "none", "true", "false"
    exit_code             \* the process exit status; -1 while running

mainVars == << args, now, report_date, recipients, read_env_recipients >>
sendVars == << smtp_require_tls, formatted_date, msg, html_content >>
outVars == << stdout, stderr, exit_code >>
vars == << env, args, pc, now, report_date, recipients, read_env_recipients,
           smtp_require_tls, formatted_date, msg, html_content, conn, events,
           stdout, stderr, raised, named_missing, success, exit_code >>

NoArgs == [ parse |-> "none", html_file |-> << >>, date |-> None, recipients |-> None ]

NoMsg == [ Subject |-> << >>, From |-> << >>, To |-> << >>, subtype |-> "none",
           parts |-> << >> ]

NoConn == [ open |-> FALSE, enc |-> FALSE, auth |-> FALSE ]

Init ==
    /\ env \in Environments
    /\ args = NoArgs
    /\ pc = "parse_args"
    /\ now = None
    /\ report_date = None
    /\ recipients = << >>
    /\ read_env_recipients = FALSE
    /\ smtp_require_tls = FALSE
    /\ formatted_date = << >>
    /\ msg = NoMsg
    /\ html_content = None
    /\ conn = NoConn
    /\ events = << >>
    /\ stdout = << >>
    /\ stderr = << >>
    /\ raised = "none"
    /\ named_missing = << >>
    /\ success = "none"
    /\ exit_code = -1

\* An operation on the file system or on the SMTP connection: what was
\* called, whether it succeeded, the exception it raised ("none" if none),
\* and the connection's state when it was called.
Event(op, ok, exc) ==
    [ op |-> op, ok |-> ok, exc |-> exc, enc |-> conn.enc, auth |-> conn.auth ]

\* sys.exit(code), after printing the messages kinds to sys.stderr.
Exit(code, kinds) ==
    /\ pc' = "done"
    /\ exit_code' = code
    /\ stderr' = stderr \o kinds

\* ------------------------------------------------------------------------
\* main, lines 137-199
\* ------------------------------------------------------------------------
\* args = parser.parse_args(): argparse exits with status 2 on a usage error
\* and with status 0 after printing --help.
ParseArgs ==
    /\ pc = "parse_args"
    /\ \E a \in CommandLines :
         IF a.parse = "ok"
         THEN /\ args' = a
              /\ pc' = "validate_environment"
              /\ UNCHANGED outVars
         ELSE /\ UNCHANGED args
              /\ IF a.parse = "error"
                 THEN Exit(2, << "usage" >>) /\ UNCHANGED stdout
                 ELSE Exit(0, << >>) /\ stdout' = Append(stdout, "help")
    /\ UNCHANGED << env, now, report_date, recipients, read_env_recipients,
                    sendVars, conn, events, raised, named_missing, success >>

\* var not in os.environ
IsMissingUnsetOnly(e, var) == e[var] = None

\* not os.environ.get(var)
IsMissing(e, var) == ~Truthy(e[var])

\* missing_vars = [var for var in required_vars if not os.environ.get(var)]
missing_vars(e) == SelectSeq(required_vars, LAMBDA var : IsMissing(e, var))

validate_environment ==
    /\ pc = "validate_environment"
    /\ IF missing_vars(env) # << >>
       THEN /\ named_missing' = missing_vars(env)
            /\ Exit(1, << "missing_env", "required_list" >>)
       ELSE /\ pc' = "is_file"
            /\ UNCHANGED << named_missing, stderr, exit_code >>
    /\ UNCHANGED << env, mainVars, sendVars, conn, events, stdout, raised, success >>

\* if not Path(args.html_file).is_file(): the answer is the file system's.
CheckFile ==
    /\ pc = "is_file"
    /\ \E is_file \in BOOLEAN :
         /\ events' = Append(events, Event("is_file", is_file, "none"))
         /\ IF is_file
            THEN /\ pc' = "resolve_date"
                 /\ UNCHANGED << stderr, exit_code >>
            ELSE Exit(1, << "file_not_found" >>)
    /\ UNCHANGED << env, mainVars, sendVars, conn, stdout, raised, named_missing, success >>

\* extract_date_from_filename(filename), with today the value of
\* datetime.now().strftime('%Y-%m-%d').
extract_date_from_filename(filename, today) ==
    IF HasDatePattern(filename) THEN FirstDateMatch(filename) ELSE today

\* The date checked against the filename pattern instead of parsed.
DateAcceptedByPattern(date) == Len(date) = 10 /\ DatePatternAt(date, 1)

\* The date not checked at all.
DateAcceptedAlways(date) == TRUE

\* lines 182-184: datetime.strptime(report_date, '%Y-%m-%d') raises no
\* ValueError.
DateAccepted(date) == strptime(date).ok

\* lines 179-189
ResolveDate ==
    /\ pc = "resolve_date"
    /\ IF Truthy(args.date)
       THEN /\ UNCHANGED now
            /\ IF DateAccepted(args.date[1])
               THEN /\ report_date' = args.date
                    /\ pc' = "resolve_recipients"
                    /\ UNCHANGED << stderr, exit_code >>
               ELSE /\ report_date' = args.date
                    /\ Exit(1, << "invalid_date", "expected_format" >>)
       ELSE \E today \in Todays :
              /\ now' = IF HasDatePattern(args.html_file) THEN None ELSE Some(today)
              /\ report_date' = Some(extract_date_from_filename(args.html_file, today))
              /\ pc' = "resolve_recipients"
              /\ UNCHANGED << stderr, exit_code >>
    /\ UNCHANGED << env, args, recipients, read_env_recipients, sendVars, conn,
                    events, stdout, raised, named_missing, success >>

\* lines 192-199
ResolveRecipients ==
    /\ pc = "resolve_recipients"
    /\ IF Truthy(args.recipients)
       THEN /\ recipients' = SplitAndStrip(args.recipients[1])
            /\ pc' = "send_setup"
            /\ UNCHANGED << read_env_recipients, stderr, exit_code >>
       ELSE /\ read_env_recipients' = TRUE
            /\ IF ~Truthy(env["SMTP_RECIPIENTS"])
               THEN /\ Exit(1, << "no_recipients" >>)
                    /\ UNCHANGED recipients
               ELSE /\ recipients' = SplitAndStrip(env["SMTP_RECIPIENTS"][1])
                    /\ pc' = "send_setup"
                    /\ UNCHANGED << stderr, exit_code >>
    /\ UNCHANGED << env, args, now, report_date, sendVars, conn, events,
                    stdout, raised, named_missing, success >>

\* ------------------------------------------------------------------------
\* send_report_email, lines 79-134
\* ------------------------------------------------------------------------
\* int(s) for the decimal strings this model uses: surrounding whitespace and
\* one sign are accepted, then digits only; anything else is a ValueError.
IntParses(s) ==
    LET t == strip(s)
        body == IF t # << >> /\ Head(t) \in { "+", "-" } THEN Tail(t) ELSE t
    IN  /\ body # << >>
        /\ \A k \in 1..Len(body) : IsDigit(body[k])

\* The comparison without .lower().
RequireTLSCaseSensitive(value) == value \in { << "t", "r", "u", "e" >>, << "1" >>, << "y", "e", "s" >> }

\* os.environ['SMTP_REQUIRE_TLS'].lower() in ('true', '1', 'yes')
RequireTLS(value) == lower(value) \in { << "t", "r", "u", "e" >>, << "1" >>, << "y", "e", "s" >> }

\* 'JIRA Progress Report - '
SubjectPrefix == << "J", "I", "R", "A", " ", "P", "r", "o", "g", "r", "e", "s", "s", " ", "R", "e", "p", "o", "r", "t", " ", "-", " " >>

\* lines 201-202 and 82-96: announce the send, read the configuration and
\* build the message headers.  A
\* port that is no integer raises ValueError outside any try: the
\* interpreter prints the traceback and exits with status 1.
SendSetup ==
    /\ pc = "send_setup"
    /\ stdout' = stdout \o << "sending_report", "recipients" >>
    /\ IF ~IntParses(env["SMTP_PORT"][1])
       THEN /\ Exit(1, << "traceback" >>)
            /\ UNCHANGED sendVars
       ELSE /\ smtp_require_tls' = RequireTLS(env["SMTP_REQUIRE_TLS"][1])
            /\ formatted_date' = format_date_for_subject(report_date[1])
            /\ msg' = [ Subject |-> SubjectPrefix \o format_date_for_subject(report_date[1]),
                        From |-> env["SMTP_FROM"][1],
                        To |-> join(recipients),
                        subtype |-> "alternative",
                        parts |-> << >> ]
            /\ pc' = "read_html"
            /\ UNCHANGED << html_content, stderr, exit_code >>
    /\ UNCHANGED << env, mainVars, conn, events, raised, named_missing, success >>

\* read_html_file, lines 71-76: the exception behind each message.
ReadException(kind) == IF kind = "read_not_found" THEN "FileNotFoundError" ELSE "OSError"

\* read_html_file printing its error and returning instead of exiting.
ReadHtmlNoExit ==
    /\ pc = "read_html"
    /\ \/ \E content \in Contents :
            /\ events' = Append(events, Event("read", TRUE, "none"))
            /\ html_content' = Some(content)
            /\ msg' = [ msg EXCEPT !.parts =
                          Append(@, [ subtype |-> "html", payload |-> content ]) ]
            /\ UNCHANGED stderr
       \/ \E kind \in { "read_not_found", "read_error" } :
            /\ events' = Append(events, Event("read", FALSE, ReadException(kind)))
            /\ stderr' = Append(stderr, kind)
            /\ UNCHANGED << msg, html_content >>
    /\ pc' = "connect"
    /\ UNCHANGED << env, mainVars, smtp_require_tls, formatted_date, conn,
                    stdout, raised, named_missing, success, exit_code >>

\* lines 99-103 and read_html_file: the file may have gone or become
\* unreadable since the existence check.
ReadHtml ==
    /\ pc = "read_html"
    /\ \/ \E content \in Contents :
            /\ events' = Append(events, Event("read", TRUE, "none"))
            /\ html_content' = Some(content)
            /\ msg' = [ msg EXCEPT !.parts =
                          Append(@, [ subtype |-> "html", payload |-> content ]) ]
            /\ pc' = "connect"
            /\ UNCHANGED << stderr, exit_code >>
       \/ \E kind \in { "read_not_found", "read_error" } :
            /\ events' = Append(events, Event("read", FALSE, ReadException(kind)))
            /\ Exit(1, << kind >>)
            /\ UNCHANGED << msg, html_content >>
    /\ UNCHANGED << env, mainVars, smtp_require_tls, formatted_date, conn,
                    stdout, raised, named_missing, success >>

\* The exceptions the smtplib calls are modelled to raise: an
\* SMTPAuthenticationError, another SMTPException, an exception that is no
\* SMTPException.
Raised == { "SMTPAuthenticationError", "SMTPServerDisconnected", "TimeoutError" }

\* The exceptions SMTP.__exit__ lets out: it sends QUIT, raises
\* SMTPResponseException on a reply other than 221, swallows
\* SMTPServerDisconnected, and closes the socket in any case.
QuitRaised == { "SMTPResponseException", "TimeoutError" }

SMTPExceptions == { "SMTPAuthenticationError", "SMTPServerDisconnected",
                    "SMTPResponseException" }

IsInstance(exc, cls) ==
    \/ cls = "Exception"
    \/ cls = exc
    \/ cls = "SMTPException" /\ exc \in SMTPExceptions

\* The except clauses with SMTPException tried before its subclass.
ExceptClauseGeneralFirst(exc) ==
    IF IsInstance(exc, "SMTPException") THEN "smtp_error"
    ELSE IF IsInstance(exc, "SMTPAuthenticationError") THEN "auth_failed"
    ELSE "send_failed"

\* The except clauses of lines 126-134, in order: the message printed.
ExceptClause(exc) ==
    IF IsInstance(exc, "SMTPAuthenticationError") THEN "auth_failed"
    ELSE IF IsInstance(exc, "SMTPException") THEN "smtp_error"
    ELSE "send_failed"

\* An exception reaches the except clauses: print, return False.
Caught(exc) ==
    /\ stderr' = Append(stderr, ExceptClause(exc))
    /\ raised' = exc
    /\ success' = "false"
    /\ pc' = "main_result"

\* lines 107-111 and 119: smtplib.SMTP(...) or smtplib.SMTP_SSL(...).  When
\* the constructor raises there is no connection and no with block.
Connect ==
    /\ pc = "connect"
    /\ stdout' = Append(stdout, "connecting")
    /\ LET op == IF smtp_require_tls THEN "connect_plain" ELSE "connect_ssl"
       IN  \/ /\ events' = Append(events, Event(op, TRUE, "none"))
              /\ conn' = [ open |-> TRUE, enc |-> ~smtp_require_tls, auth |-> FALSE ]
              /\ pc' = IF smtp_require_tls THEN "ehlo1" ELSE "login"
              /\ UNCHANGED << stderr, raised, success >>
           \/ \E exc \in Raised :
                /\ events' = Append(events, Event(op, FALSE, exc))
                /\ Caught(exc)
                /\ UNCHANGED conn
    /\ UNCHANGED << env, mainVars, sendVars, named_missing, exit_code >>

\* A call inside the with block raises exc: SMTP.__exit__ runs, and may
\* raise in turn (quit); the exception that leaves the with block reaches
\* the except clauses.
RaiseInWith(op, exc, quit) ==
    /\ events' = events \o << Event(op, FALSE, exc), Event("close", quit = "none", quit) >>
    /\ conn' = [ conn EXCEPT !.open = FALSE ]
    /\ Caught(IF quit = "none" THEN exc ELSE quit)

\* A call inside the with block: it returns and the block goes on with the
\* connection as after, or it raises.
Call(at, op, after, next) ==
    /\ pc = at
    /\ \/ /\ events' = Append(events, Event(op, TRUE, "none"))
          /\ conn' = after
          /\ pc' = next
          /\ UNCHANGED << stderr, raised, success >>
       \/ \E exc \in Raised, quit \in QuitRaised \cup { "none" } :
            RaiseInWith(op, exc, quit)
    /\ UNCHANGED << env, mainVars, sendVars, stdout, named_missing, exit_code >>

\* lines 112-116 and 120-121
Ehlo1 == Call("ehlo1", "ehlo", conn, "starttls")

StartTLS == Call("starttls", "starttls", [ conn EXCEPT !.enc = TRUE ], "ehlo2")

Ehlo2 == Call("ehlo2", "ehlo", conn, "login")

Login == Call("login", "login", [ conn EXCEPT !.auth = TRUE ], "send_message")

SendMessage == Call("send_message", "send_message", conn, "with_exit")

\* The with block ends normally: SMTP.__exit__ runs; then lines 123-124.
WithExit ==
    /\ pc = "with_exit"
    /\ conn' = [ conn EXCEPT !.open = FALSE ]
    /\ \/ /\ events' = Append(events, Event("close", TRUE, "none"))
          /\ stdout' = Append(stdout, "successfully_sent")
          /\ success' = "true"
          /\ pc' = "main_result"
          /\ UNCHANGED << stderr, raised >>
       \/ \E quit \in QuitRaised :
            /\ events' = Append(events, Event("close", FALSE, quit))
            /\ Caught(quit)
            /\ UNCHANGED stdout
    /\ UNCHANGED << env, mainVars, sendVars, named_missing, exit_code >>

\* main without the sys.exit(1) of line 212: the interpreter exits with 0.
MainResultNoExit1 ==
    /\ pc = "main_result"
    /\ IF success = "true"
       THEN Exit(0, << >>) /\ stdout' = Append(stdout, "email_sent")
       ELSE Exit(0, << "failed_to_send" >>) /\ UNCHANGED stdout
    /\ UNCHANGED << env, mainVars, sendVars, conn, events, raised, named_missing, success >>

\* main, lines 207-212
MainResult ==
    /\ pc = "main_result"
    /\ IF success = "true"
       THEN Exit(0, << >>) /\ stdout' = Append(stdout, "email_sent")
       ELSE Exit(1, << "failed_to_send" >>) /\ UNCHANGED stdout
    /\ UNCHANGED << env, mainVars, sendVars, conn, events, raised, named_missing, success >>

Next ==
    \/ ParseArgs
    \/ validate_environment
    \/ CheckFile
    \/ ResolveDate
    \/ ResolveRecipients
    \/ SendSetup
    \/ ReadHtml
    \/ Connect
    \/ Ehlo1
    \/ StartTLS
    \/ Ehlo2
    \/ Login
    \/ SendMessage
    \/ WithExit
    \/ MainResult

Spec == Init /\ [][Next]_vars

\* ------------------------------------------------------------------------
\* Vocabulary of the properties
\* ------------------------------------------------------------------------
Range(q) == { q[i] : i \in 1..Len(q) }

\* The required variables that are unset or set to the empty string.
AbsentOrEmpty == { v \in RequiredSet : env[v] = None \/ env[v] = Some(<< >>) }

FileOps == { "is_file", "read" }

ConnectOps == { "connect_plain", "connect_ssl" }

NetworkOps == ConnectOps \cup { "ehlo", "starttls", "login", "send_message", "close" }

\* The operations of the given kinds attempted so far, in order.
OpsIn(kinds) == SelectSeq([ i \in 1..Len(events) |-> events[i].op ], LAMBDA op : op \in kinds)

\* main called send_report_email (line 205, announced by lines 201-202).
SenderInvoked == "sending_report" \in Range(stdout)

\* The messages of a configuration or file error.
ConfigOrFileErrors == { "missing_env", "file_not_found", "invalid_date", "no_recipients",
                        "traceback", "read_not_found", "read_error" }

\* The messages of the three except clauses of send_report_email.
SendErrors == { "auth_failed", "smtp_error", "send_failed" }

\* ------------------------------------------------------------------------
\* C1
\* ------------------------------------------------------------------------
\* C1, as stated: in every run in which a required environment variable is
\* absent or empty, the process exits with status 1, names exactly the
\* absent-or-empty required variables, and has touched neither a file nor
\* the network.
C1_AsStated ==
    (AbsentOrEmpty # { } /\ pc = "done") =>
        /\ exit_code = 1
        /\ Range(named_missing) = AbsentOrEmpty
        /\ events = << >>

\* C1, amended: in every run whose command line argparse accepts and in
\* which a required environment variable is absent or empty, the process
\* exits with status 1 right after validate_environment, the variables
\* named as missing are exactly the absent-or-empty required ones, and no
\* file or network operation is ever attempted (with a rejected command
\* line or --help, argparse exits first, with status 2 or 0, also without
\* any file or network operation).
C1_EnvironmentGate ==
    AbsentOrEmpty # { } =>
        /\ events = << >>
        /\ pc \in { "parse_args", "validate_environment", "done" }
        /\ (pc = "done" /\ args.parse = "ok") =>
              /\ exit_code = 1
              /\ Range(named_missing) = AbsentOrEmpty
              /\ stderr = << "missing_env", "required_list" >>
        /\ (pc = "done" /\ args.parse # "ok") =>
              /\ exit_code \in { 0, 2 }
              /\ named_missing = << >>

\* Two required variables are empty strings, and the run ended naming both.
C1_Witness ==
    /\ pc = "done"
    /\ exit_code = 1
    /\ Cardinality(AbsentOrEmpty) = 2
    /\ \A v \in AbsentOrEmpty : env[v] = Some(<< >>)
    /\ Range(named_missing) = AbsentOrEmpty

\* ------------------------------------------------------------------------
\* C2
\* ------------------------------------------------------------------------
\* C2, as stated: in every run given a --date value that does not parse as
\* YYYY-MM-DD, the process exits non-zero and no file access (existence
\* check or read) is attempted.
C2_AsStated ==
    (args.date # None /\ ~strptime(args.date[1]).ok) =>
        /\ pc = "done" => exit_code # 0
        /\ OpsIn(FileOps) = << >>

\* C2, amended: in every run given a non-empty --date value that does not
\* parse as YYYY-MM-DD, the process exits with status 1 without reading the
\* HTML file and without any network operation; the existence check of the
\* HTML file is made before the date is looked at, so the date is rejected
\* only after that check succeeded.
C2_InvalidDateRejected ==
    (Truthy(args.date) /\ ~strptime(args.date[1]).ok) =>
        /\ pc \in { "validate_environment", "is_file", "resolve_date", "done" }
        /\ pc = "done" => exit_code = 1
        /\ OpsIn(NetworkOps \cup { "read" }) = << >>
        /\ "invalid_date" \in Range(stderr) =>
              /\ Len(events) = 1
              /\ events[1].op = "is_file"
              /\ events[1].ok

\* --date 2026-02-30 was rejected, after the existence check.
C2_Witness ==
    /\ pc = "done"
    /\ args.date = Some(<< "2", "0", "2", "6", "-", "0", "2", "-", "3", "0" >>)
    /\ "invalid_date" \in Range(stderr)
    /\ Len(events) = 1

\* ------------------------------------------------------------------------
\* C3
\* ------------------------------------------------------------------------
\* C3, as stated: every terminating run exits with status 0 or 1, status 0
\* exactly when the mail sender reported a successful send, status 1 on
\* every validation failure (command line included), file error and send
\* failure.
C3_AsStated ==
    pc = "done" =>
        /\ exit_code \in { 0, 1 }
        /\ exit_code = 0 <=> success = "true"
        /\ stderr # << >> => exit_code = 1

\* C3, amended: every terminating run exits with status 0, 1 or 2: status 2
\* exactly when argparse rejects the command line; status 0 exactly when
\* the mail sender reported a successful send or argparse printed --help;
\* status 1 on every environment, date or recipients validation failure,
\* every file error, a non-integer SMTP_PORT and every send failure.
C3_ExitStatus ==
    pc = "done" =>
        /\ exit_code \in { 0, 1, 2 }
        /\ exit_code = 2 <=> "usage" \in Range(stderr)
        /\ exit_code = 0 <=> (success = "true" \/ "help" \in Range(stdout))
        /\ exit_code = 1 <=>
              Range(stderr) \cap (ConfigOrFileErrors \cup SendErrors) # { }
        /\ success = "false" => exit_code = 1

\* A run ended with status 1 because the send failed.
C3_Witness ==
    /\ pc = "done"
    /\ exit_code = 1
    /\ success = "false"
    /\ "failed_to_send" \in Range(stderr)

\* ------------------------------------------------------------------------
\* C4
\* ------------------------------------------------------------------------
\* The input file's name: what follows the last "/" of the path.
NameOf(path) ==
    LET slashes == { i \in 1..Len(path) : path[i] = "/" }
    IN  IF slashes = { } THEN path
        ELSE SubSeq(path, (CHOOSE i \in slashes : \A j \in slashes : j <= i) + 1, Len(path))

\* A date has been resolved and the run went on.
DateResolved == pc = "resolve_recipients" \/ pc = "send_setup" \/ SenderInvoked

\* C4: the resolved report date is the valid --date when one is given;
\* otherwise the first dddd-dd-dd substring of the input file's name; and
\* the current local date only when the file's name has no such substring.
C4_DatePrecedence ==
    DateResolved =>
        report_date =
            IF args.date # None /\ strptime(args.date[1]).ok
            THEN args.date
            ELSE IF HasDatePattern(NameOf(args.html_file))
            THEN Some(FirstDateMatch(NameOf(args.html_file)))
            ELSE now

\* ------------------------------------------------------------------------
\* C5
\* ------------------------------------------------------------------------
\* A valid calendar date written as four digits, two digits, two digits.
IsCalendarDate(d) == Len(d) = 10 /\ DatePatternAt(d, 1) /\ strptime(d).ok

\* send_report_email has called format_date_for_subject (line 90).
Formatted == msg.subtype = "alternative"

\* The report date came from the html_file argument (neither from --date nor
\* from the clock).
DateFromFilename == ~Truthy(args.date) /\ now = None

\* C5, as stated: in every run that reaches the mail sender the report date
\* is a valid calendar date in YYYY-MM-DD form, and the display formatter's
\* fallback (the date returned unmodified) is never taken.
C5_AsStated ==
    SenderInvoked =>
        /\ strptime(report_date[1]).ok
        /\ Formatted => formatted_date # report_date[1]

\* C5, amended: in every run that reaches the mail sender, a report date
\* that came from --date or from the clock parses as a calendar date with
\* '%Y-%m-%d' (from --date it need not be zero-padded, e.g. 2026-1-6), and
\* a report date that came from the html_file argument is ten characters of
\* the form dddd-dd-dd that need not be a calendar date (e.g. 2026-13-45);
\* the display formatter's fallback is taken exactly when the date came
\* from the html_file argument and is not a calendar date.
C5_ReportDateForm ==
    SenderInvoked =>
        /\ ~DateFromFilename => strptime(report_date[1]).ok
        /\ DateFromFilename => Len(report_date[1]) = 10 /\ DatePatternAt(report_date[1], 1)
        /\ now # None => IsCalendarDate(report_date[1])
        /\ Formatted =>
              (formatted_date = report_date[1]
                  <=> (DateFromFilename /\ ~IsCalendarDate(report_date[1])))

\* The fallback was taken: r-2026-13-45.h gave the subject its raw date.
C5_Witness ==
    /\ SenderInvoked
    /\ Formatted
    /\ DateFromFilename
    /\ report_date = Some(<< "2", "0", "2", "6", "-", "1", "3", "-", "4", "5" >>)
    /\ formatted_date = report_date[1]

\* ------------------------------------------------------------------------
\* C6
\* ------------------------------------------------------------------------
\* The value cut at its commas, each piece trimmed, stated from the
\* positions of the commas.
CommaPositions(value) == { k \in 1..Len(value) : value[k] = "," }

PieceStart(value, i) ==
    IF i = 1 THEN 1
    ELSE (CHOOSE k \in CommaPositions(value) :
              Cardinality({ j \in CommaPositions(value) : j < k }) = i - 2) + 1

PieceEnd(value, i) ==
    IF i = Cardinality(CommaPositions(value)) + 1 THEN Len(value)
    ELSE (CHOOSE k \in CommaPositions(value) :
              Cardinality({ j \in CommaPositions(value) : j < k }) = i - 1) - 1

TrimmedPieces(value) ==
    [ i \in 1..(Cardinality(CommaPositions(value)) + 1) |->
        strip(SubSeq(value, PieceStart(value, i), PieceEnd(value, i))) ]

\* The recipients have been resolved and the run went on.
RecipientsResolved == pc = "send_setup" \/ SenderInvoked

\* C6, as stated: a supplied --recipients value is split on commas and
\* trimmed, in order, nothing removed, and SMTP_RECIPIENTS is not consulted;
\* otherwise the same is applied to SMTP_RECIPIENTS; with no flag and
\* SMTP_RECIPIENTS absent or empty the process exits with status 1 before
\* any send attempt; the list that reaches the sender is non-empty.
C6_AsStated ==
    /\ (RecipientsResolved /\ args.recipients # None) =>
          /\ recipients = TrimmedPieces(args.recipients[1])
          /\ ~read_env_recipients
    /\ (RecipientsResolved /\ args.recipients = None) =>
          recipients = TrimmedPieces(env["SMTP_RECIPIENTS"][1])
    /\ (args.parse = "ok" /\ args.recipients = None /\ ~Truthy(env["SMTP_RECIPIENTS"])) =>
          /\ ~SenderInvoked
          /\ pc = "done" => exit_code = 1
    /\ SenderInvoked => recipients # << >>

\* C6, amended: a supplied non-empty --recipients value is split on commas
\* and trimmed, in order, nothing removed, and SMTP_RECIPIENTS is not
\* consulted; when the flag is not supplied or is the empty string the same
\* is applied to SMTP_RECIPIENTS; when the flag is not supplied or empty and
\* SMTP_RECIPIENTS is absent or empty the process exits with status 1 before
\* any send attempt; the list that reaches the sender is non-empty.
C6_RecipientResolution ==
    /\ (RecipientsResolved /\ Truthy(args.recipients)) =>
          /\ recipients = TrimmedPieces(args.recipients[1])
          /\ ~read_env_recipients
    /\ (RecipientsResolved /\ ~Truthy(args.recipients)) =>
          /\ read_env_recipients
          /\ Truthy(env["SMTP_RECIPIENTS"])
          /\ recipients = TrimmedPieces(env["SMTP_RECIPIENTS"][1])
    /\ (args.parse = "ok" /\ ~Truthy(args.recipients) /\ ~Truthy(env["SMTP_RECIPIENTS"])) =>
          /\ ~SenderInvoked
          /\ OpsIn(NetworkOps) = << >>
          /\ pc = "done" => exit_code = 1
    /\ SenderInvoked => recipients # << >>

\* --recipients "a@x,,a@x " reached the sender as three entries, the empty
\* one and the duplicate kept.
C6_Witness ==
    /\ SenderInvoked
    /\ args.recipients = Some(<< "a", "@", "x", ",", ",", "a", "@", "x", " " >>)
    /\ recipients = << << "a", "@", "x" >>, << >>, << "a", "@", "x" >> >>
    /\ ~read_env_recipients

\* ------------------------------------------------------------------------
\* C7
\* ------------------------------------------------------------------------
\* Position i of events is preceded by a successful operation op.
PrecededBy(i, op) == \E j \in 1..(i - 1) : events[j].op = op /\ events[j].ok

\* C7: an SMTP connection is opened only after environment validation, the
\* existence check, date resolution, recipient resolution and the read of
\* the HTML file have all succeeded; a configuration or file error (the
\* file failing to read after the existence check included) ends the run
\* with a message and a non-zero status, no network operation attempted.
C7_NetworkLast ==
    /\ \A i \in 1..Len(events) :
          events[i].op \in NetworkOps =>
              /\ AbsentOrEmpty = { }
              /\ PrecededBy(i, "is_file")
              /\ PrecededBy(i, "read")
              /\ report_date # None
              /\ recipients # << >>
              /\ html_content # None
    /\ \A i \in 1..Len(events) : events[i].op = "read" => PrecededBy(i, "is_file")
    /\ Range(stderr) \cap ConfigOrFileErrors # { } =>
          /\ pc = "done"
          /\ exit_code # 0
          /\ OpsIn(NetworkOps) = << >>

\* A connection was opened, after the file was checked and read.
C7_Witness ==
    /\ \E i \in 1..Len(events) : events[i].op \in ConnectOps /\ events[i].ok
    /\ OpsIn(FileOps) = << "is_file", "read" >>

\* ------------------------------------------------------------------------
\* C8
\* ------------------------------------------------------------------------
\* The message has been handed to the transport (server.send_message(msg)).
HandedToTransport == "send_message" \in Range(OpsIn(NetworkOps))

\* C8: every message handed to the transport has the subject
\* "JIRA Progress Report - " followed by the display format of the report
\* date ("2026-01-06" gives "Jan 06, 2026"; a date that does not parse is
\* kept as it is), exactly one part, of type HTML, holding the file content
\* as read, From equal to SMTP_FROM and To the recipients joined in order.
C8_MessageContent ==
    HandedToTransport =>
        /\ msg.Subject = << "J", "I", "R", "A", " ", "P", "r", "o", "g", "r", "e", "s", "s", " ", "R", "e", "p", "o", "r", "t", " ", "-", " " >> \o formatted_date
        /\ formatted_date = format_date_for_subject(report_date[1])
        /\ report_date = Some(<< "2", "0", "2", "6", "-", "0", "1", "-", "0", "6" >>) =>
              msg.Subject = << "J", "I", "R", "A", " ", "P", "r", "o", "g", "r", "e", "s", "s", " ", "R", "e", "p", "o", "r", "t", " ", "-", " ", "J", "a", "n", " ", "0", "6", ",", " ", "2", "0", "2", "6" >>
        /\ report_date = Some(<< "2", "0", "2", "6", "-", "1", "3", "-", "4", "5" >>) =>
              msg.Subject = << "J", "I", "R", "A", " ", "P", "r", "o", "g", "r", "e", "s", "s", " ", "R", "e", "p", "o", "r", "t", " ", "-", " ", "2", "0", "2", "6", "-", "1", "3", "-", "4", "5" >>
        /\ Len(msg.parts) = 1
        /\ msg.parts[1] = [ subtype |-> "html", payload |-> html_content[1] ]
        /\ msg.From = env["SMTP_FROM"][1]
        /\ msg.To = join(recipients)
        /\ recipients = << << "a", "@", "x" >>, << "b", "@", "y" >> >> => msg.To = << "a", "@", "x", ",", " ", "b", "@", "y" >>

\* The report of 2026-01-06 with the content "<p>hi</p>" was handed over.
C8_Witness ==
    /\ HandedToTransport
    /\ report_date = Some(<< "2", "0", "2", "6", "-", "0", "1", "-", "0", "6" >>)
    /\ html_content = Some(<< "<", "p", ">", "h", "i", "<", "/", "p", ">" >>)
    /\ Len(recipients) = 2

\* ------------------------------------------------------------------------
\* C9
\* ------------------------------------------------------------------------
\* SMTP_REQUIRE_TLS, compared case-insensitively, is one of true, 1, yes.
TLSRequired == lower(env["SMTP_REQUIRE_TLS"][1]) \in { << "t", "r", "u", "e" >>, << "1" >>, << "y", "e", "s" >> }

SessionOrder ==
    IF TLSRequired
    THEN << "connect_plain", "ehlo", "starttls", "ehlo", "login", "send_message" >>
    ELSE << "connect_ssl", "login", "send_message" >>

IsPrefix(p, q) == Len(p) <= Len(q) /\ p = SubSeq(q, 1, Len(p))

\* C9: the SMTP calls are made in the order connect, (EHLO, STARTTLS,
\* EHLO), login, send, close; the STARTTLS steps are made exactly when
\* SMTP_REQUIRE_TLS is, case-insensitively, one of true, 1, yes, and
\* otherwise the connection is TLS-wrapped from the start; login is called
\* only on an encrypted channel and send only after a successful login.
C9_SessionOrder ==
    LET calls == OpsIn(NetworkOps \ { "close" })
        closes == { i \in 1..Len(events) : events[i].op = "close" }
    IN  /\ OpsIn(NetworkOps) # << >> => IsPrefix(calls, SessionOrder)
        /\ \A i \in 1..Len(events) :
              /\ events[i].op = "login" => events[i].enc
              /\ events[i].op = "send_message" => events[i].enc /\ events[i].auth
              /\ (events[i].op \in NetworkOps /\ i > 1 /\ events[i - 1].op \in NetworkOps) =>
                    (events[i - 1].ok \/ events[i].op = "close")
        /\ closes \subseteq { Len(events) }
        /\ success = "true" => OpsIn(NetworkOps) = Append(SessionOrder, "close")

\* A run with SMTP_REQUIRE_TLS=Yes sent the message over STARTTLS.
C9_Witness ==
    /\ success = "true"
    /\ env["SMTP_REQUIRE_TLS"] = Some(<< "Y", "e", "s" >>)
    /\ "starttls" \in Range(OpsIn(NetworkOps))

\* ------------------------------------------------------------------------
\* C10
\* ------------------------------------------------------------------------
\* An SMTP call has failed.
CallFailed == \E i \in 1..Len(events) : events[i].op \in NetworkOps /\ ~events[i].ok

\* The first SMTP call that failed.
FirstFailure ==
    events[CHOOSE i \in 1..Len(events) :
               /\ events[i].op \in NetworkOps /\ ~events[i].ok
               /\ \A j \in 1..(i - 1) : events[j].op \in NetworkOps => events[j].ok]

\* The exception that leaves the with block: the one of the failed call,
\* unless the QUIT sent on leaving the block failed in turn.
Escaping ==
    IF events[Len(events)].op = "close" /\ ~events[Len(events)].ok
    THEN events[Len(events)].exc
    ELSE FirstFailure.exc

\* The message of each kind of failure: authentication, another SMTP
\* failure, anything else.
MessageFor(exc) ==
    CASE exc = "SMTPAuthenticationError" -> "auth_failed"
      [] exc \in { "SMTPServerDisconnected", "SMTPResponseException" } -> "smtp_error"
      [] exc = "TimeoutError" -> "send_failed"

====
